---- MODULE Spec2Model ----
(***************************************************************************)
(* floating-duration: conversion of a Duration (u64 seconds + u32          *)
(* sub-second nanoseconds) to fractional f64 seconds / milliseconds /      *)
(* microseconds, and the TimeFormat Display implementation.                *)
(*                                                                         *)
(* TLC has 32-bit integers only, so every wide quantity (u64 seconds, f64  *)
(* values) is a sequence of limbs of LimbBits bits, least significant limb *)
(* first, without leading zero limbs (<<>> is 0).  An f64 is held as a     *)
(* fixed-point number with FracLimbs limbs after the binary point.         *)
(* Every f64 operation computes the exact result and rounds it to 53       *)
(* significant bits, to nearest, ties to even (IEEE 754 binary64).  All    *)
(* values are non-negative and far from the subnormal and overflow ranges. *)
(***************************************************************************)
EXTENDS Integers, Sequences, FiniteSets, TLC

\* f64::MANTISSA_DIGITS: significant bits of an f64.
MantBits == 53

\* Bits of one limb, and limbs after the binary point of an f64.  The
\* smallest non-zero value the program computes is 1 / 1e9 > 2^-30, whose
\* last mantissa bit is 2^-82: LimbBits * FracLimbs must be at least 82.
LimbBits == 12

FracLimbs == 7

Base == 2 ^ LimbBits

(***************************************************************************)
(* Unsigned integers of any width, as limb sequences.                      *)
(*                                                                         *)
(* A TLA+ operator is a macro: an argument is evaluated again at each of   *)
(* its uses.  Val({F(v) : v \in {e}}) evaluates e once and hands F its     *)
(* value, which keeps the cost of nested arithmetic additive.              *)
(***************************************************************************)
Val(S) == CHOOSE v \in S : TRUE

RECURSIVE FromNat(_)
FromNat(n) == IF n = 0 THEN <<>> ELSE <<n % Base>> \o FromNat(n \div Base)

\* The value of the limbs i.. of b, for b < 2^31
RECURSIVE ToNatR(_, _)
ToNatR(b, i) == IF i > Len(b) THEN 0 ELSE b[i] + Base * ToNatR(b, i + 1)

ToNat(x) == Val({ToNatR(b, 1) : b \in {x}})

\* The n lowest limbs of b without leading zero limbs
RECURSIVE TrimTo(_, _)
TrimTo(b, n) ==
    IF n = 0 THEN <<>>
    ELSE IF b[n] # 0 THEN SubSeq(b, 1, n)
    ELSE TrimTo(b, n - 1)

Trim(x) == Val({TrimTo(b, Len(b)) : b \in {x}})

Limb(b, i) == IF i >= 1 /\ i <= Len(b) THEN b[i] ELSE 0

ZeroLimbs(n) == [i \in 1..n |-> 0]

RECURSIVE AddR(_, _, _, _)
AddR(a, b, i, c) ==
    IF i > Len(a) /\ i > Len(b)
    THEN (IF c = 0 THEN <<>> ELSE <<c>>)
    ELSE <<(Limb(a, i) + Limb(b, i) + c) % Base>>
             \o AddR(a, b, i + 1, (Limb(a, i) + Limb(b, i) + c) \div Base)

Add(x, y) == Val({AddR(a, b, 1, 0) : a \in {x}, b \in {y}})

\* a - b, for a >= b
RECURSIVE SubR(_, _, _, _)
SubR(a, b, i, c) ==
    IF i > Len(a)
    THEN <<>>
    ELSE <<(Limb(a, i) - Limb(b, i) - c) % Base>>
             \o SubR(a, b, i + 1,
                     IF Limb(a, i) - Limb(b, i) - c < 0 THEN 1 ELSE 0)

Sub(x, y) == Trim(Val({SubR(a, b, 1, 0) : a \in {x}, b \in {y}}))

\* a < b
RECURSIVE LessR(_, _, _)
LessR(a, b, i) ==
    IF i = 0 THEN FALSE
    ELSE IF a[i] # b[i] THEN a[i] < b[i]
    ELSE LessR(a, b, i - 1)

Less(x, y) ==
    Val({IF Len(a) # Len(b) THEN Len(a) < Len(b) ELSE LessR(a, b, Len(a))
             : a \in {x}, b \in {y}})

LessEq(x, y) == ~Less(y, x)

\* a * k, for an integer 1 <= k < 2^(31 - LimbBits)
RECURSIVE MulR(_, _, _, _)
MulR(a, k, i, c) ==
    IF i > Len(a)
    THEN FromNat(c)
    ELSE <<(a[i] * k + c) % Base>> \o MulR(a, k, i + 1, (a[i] * k + c) \div Base)

MulSmall(x, k) == Val({MulR(a, m, 1, 0) : a \in {x}, m \in {k}})

\* a * k, for k = j * 1000^n with 1 <= j <= 1000
RECURSIVE MulInt(_, _)
MulInt(a, k) ==
    IF k <= 1000 THEN MulSmall(a, k) ELSE MulInt(MulSmall(a, 1000), k \div 1000)

\* (the limbs i.. of a) mod d, for an integer 1 <= d < 2^(31 - LimbBits)
RECURSIVE RemR(_, _, _)
RemR(a, d, i) ==
    IF i > Len(a) THEN 0 ELSE (RemR(a, d, i + 1) * Base + a[i]) % d

\* a mod d
Rem(x, d) == Val({RemR(a, m, 1) : a \in {x}, m \in {d}})

\* floor(a / d): schoolbook division, most significant limb first
Quot(x, d) ==
    Trim(Val({[i \in 1..Len(a) |-> (RemR(a, m, i + 1) * Base + a[i]) \div m]
                  : a \in {x}, m \in {d}}))

\* floor(a / d), for d = j * 1000^n with 1 <= j <= 1000
RECURSIVE QuotInt(_, _)
QuotInt(a, d) ==
    IF d <= 1000 THEN Quot(a, d) ELSE QuotInt(Quot(a, 1000), d \div 1000)

\* a / d is not an integer, for the same d
RECURSIVE InexactR(_, _), InexactInt(_, _)
InexactR(a, d) ==
    IF d <= 1000 THEN RemR(a, d, 1) # 0
    ELSE RemR(a, 1000, 1) # 0 \/ InexactInt(Quot(a, 1000), d \div 1000)

InexactInt(x, d) == Val({InexactR(a, d) : a \in {x}})

RECURSIVE BitLen(_)
BitLen(n) == IF n = 0 THEN 0 ELSE 1 + BitLen(n \div 2)

\* Number of significant bits of b
BitLength(x) ==
    Val({IF b = <<>> THEN 0 ELSE (Len(b) - 1) * LimbBits + BitLen(b[Len(b)])
             : b \in {x}})

\* b * 2^n
ShiftLeft(x, n) ==
    Val({IF b = <<>> THEN <<>>
         ELSE ZeroLimbs(k \div LimbBits) \o MulSmall(b, 2 ^ (k % LimbBits))
             : b \in {x}, k \in {n}})

\* floor(b / 2^n)
ShiftRight(x, n) ==
    Val({IF Len(b) <= k \div LimbBits THEN <<>>
         ELSE Quot(SubSeq(b, k \div LimbBits + 1, Len(b)), 2 ^ (k % LimbBits))
             : b \in {x}, k \in {n}})

\* One of the n lowest bits of b is set
LowBitsSet(x, n) ==
    Val({\/ \E i \in 1..(k \div LimbBits) : Limb(b, i) # 0
         \/ Limb(b, k \div LimbBits + 1) % (2 ^ (k % LimbBits)) # 0
             : b \in {x}, k \in {n}})

(***************************************************************************)
(* f64 arithmetic.                                                         *)
(***************************************************************************)
\* t holds MantBits + 1 bits, the last one the rounding bit, st tells
\* whether anything non-zero lies below it: round to nearest, ties to even
RoundLast(t, st) ==
    IF t[1] % 2 = 1 /\ (st \/ (t[1] \div 2) % 2 = 1)
    THEN Add(Quot(t, 2), <<1>>)
    ELSE Quot(t, 2)

\* The real number x with b <= x < b + 1, and x # b iff sticky, rounded to
\* MantBits significant bits: to nearest, ties to even.
RoundNearestEven(x, sticky) ==
    Val({IF len <= MantBits THEN b
         ELSE ShiftLeft(
                  Val({RoundLast(t, sticky \/ LowBitsSet(b, len - MantBits - 1))
                           : t \in {ShiftRight(b, len - MantBits - 1)}}),
                  len - MantBits)
             : b \in {x}, len \in {BitLength(x)}})

\* The integer n in the fixed-point representation: an f64 when n < 2^53
F64Exact(n) == Val({IF b = <<>> THEN <<>> ELSE ZeroLimbs(FracLimbs) \o b : b \in {n}})

\* u32 as f64 (exact)
F64FromU32(n) == F64Exact(FromNat(n))

\* u64 as f64 (rounds above 2^53)
F64FromU64(s) == RoundNearestEven(F64Exact(s), FALSE)

\* x + y
F64Add(x, y) == RoundNearestEven(Add(x, y), FALSE)

\* x * k for an integer-valued f64 constant k
F64Mul(x, k) == RoundNearestEven(MulInt(x, k), FALSE)

\* x / d for an integer-valued f64 constant d (one guard limb is computed
\* below the last fractional limb and dropped after rounding)
F64Div(x, d) ==
    Val({IF a = <<>> THEN <<>>
         ELSE Tail(RoundNearestEven(QuotInt(<<0>> \o a, d),
                                    InexactInt(<<0>> \o a, d)))
             : a \in {x}})

\* The integer part of x
F64Trunc(x) ==
    Val({IF Len(a) <= FracLimbs THEN <<>> ELSE SubSeq(a, FracLimbs + 1, Len(a))
             : a \in {x}})

\* The fractional part of x is at least one half
F64FracHalf(x) == Limb(x, FracLimbs) >= Base \div 2

\* f64::round: to the nearest integer, half away from zero
F64Round(x) ==
    Val({F64Exact(IF F64FracHalf(a) THEN Add(F64Trunc(a), <<1>>) ELSE F64Trunc(a))
             : a \in {x}})

(***************************************************************************)
(* impl<T: Borrow<Duration>> TimeAsFloat for T.  secs is the u64 of        *)
(* Duration::as_secs (a limb sequence), nanos the u32 of subsec_nanos.     *)
(***************************************************************************)
\* as_fractional_secs with the seconds cut to 32 bits (as u32 as f64)
as_fractional_secs_u32(secs, nanos) ==
    F64Add(F64Exact(Sub(secs, ShiftLeft(ShiftRight(secs, 32), 32))),
           F64Div(F64FromU32(nanos), 1000000000))

as_fractional_secs(secs, nanos) ==
    F64Add(F64FromU64(secs), F64Div(F64FromU32(nanos), 1000000000))

\* as_fractional_millis with the divisor of as_fractional_secs
as_fractional_millis_1e9(secs, nanos) ==
    F64Add(F64Mul(F64FromU64(secs), 1000), F64Div(F64FromU32(nanos), 1000000000))

as_fractional_millis(secs, nanos) ==
    F64Add(F64Mul(F64FromU64(secs), 1000), F64Div(F64FromU32(nanos), 1000000))

as_fractional_micros(secs, nanos) ==
    F64Add(F64Mul(F64FromU64(secs), 1000000), F64Div(F64FromU32(nanos), 1000))

\* round_3_decimals with 4 decimals
round_4_decimals(x) == F64Div(F64Round(F64Mul(x, 10000)), 10000)

\* round_3_decimals with floor() for round()
floor_3_decimals(x) == F64Div(F64Exact(F64Trunc(F64Mul(x, 1000))), 1000)

round_3_decimals(x) == F64Div(F64Round(F64Mul(x, 1000)), 1000)

(***************************************************************************)
(* Display of an f64 and of a u32 ("{}" in the write! calls of fmt).       *)
(* Display of an f64 prints the shortest decimal that parses back to the   *)
(* same f64 (the closest to it among the shortest), without an exponent    *)
(* and without a decimal point when there are no fractional digits.        *)
(***************************************************************************)
\* Most fractional digits the search below tries.
MaxFracDigits == 9

\* The integer 0 <= r < 10^p as exactly p decimal digits
RECURSIVE FixedDigits(_, _)
FixedDigits(r, p) ==
    IF p = 0 THEN <<>> ELSE Append(FixedDigits(r \div 10, p - 1), r % 10)

\* The decimal digits of the integer r >= 1
RECURSIVE NatDigits(_)
NatDigits(r) == IF r = 0 THEN <<>> ELSE Append(NatDigits(r \div 10), r % 10)

RECURSIVE DecDigits(_)
DecDigits(x) ==
    Val({IF q = <<>> THEN NatDigits(RemR(b, 1000, 1))
         ELSE DecDigits(q) \o FixedDigits(RemR(b, 1000, 1), 3)
             : b \in {x}, q \in {Quot(x, 1000)}})

\* The decimal digits of an unsigned integer
DecString(x) == Val({IF b = <<>> THEN <<0>> ELSE DecDigits(b) : b \in {x}})

RECURSIVE MulPow10(_, _)
MulPow10(c, k) == IF k = 0 THEN c ELSE MulPow10(MulSmall(c, 10), k - 1)

\* The decimal c / 10^p parses to the f64 x (parsing rounds correctly)
ParsesTo(c, p, x) ==
    (IF p = 0 THEN RoundNearestEven(F64Exact(c), FALSE)
     ELSE F64Div(F64Exact(c), 10 ^ p)) = x

\* The two integers next to the fixed-point number scaled, the closer one
\* first (the larger one on a tie)
Candidates(scaled) ==
    Val({IF F64FracHalf(scaled) THEN <<Add(lo, <<1>>), lo>>
         ELSE <<lo, Add(lo, <<1>>)>>
             : lo \in {F64Trunc(scaled)}})

\* The fewest fractional digits p, from p on, with a decimal c / 10^p that
\* parses back to x, and the c closest to x
RECURSIVE ShortestFrac(_, _)
ShortestFrac(x, p) ==
    Val({IF ParsesTo(c[1], p, x) THEN [c |-> c[1], p |-> p]
         ELSE IF ParsesTo(c[2], p, x) THEN [c |-> c[2], p |-> p]
         ELSE IF p >= MaxFracDigits THEN [c |-> c[1], p |-> p]
         ELSE ShortestFrac(x, p + 1)
             : c \in {Candidates(IF p = 0 THEN x ELSE MulInt(x, 10 ^ p))}})

\* For an integer n >= 2^53: the most trailing zeros k with a multiple
\* c * 10^k that rounds to the f64 n, and the c closest to n.  q is
\* floor(n / 10^(k-1)), best the answer for k - 1.
RECURSIVE ShortestInt(_, _, _, _)
ShortestInt(n, k, q, best) ==
    Val({IF RoundNearestEven(loV, FALSE) = n
            /\ (RoundNearestEven(hiV, FALSE) # n
                    \/ ~Less(Sub(hiV, n), Sub(n, loV)))
         THEN ShortestInt(n, k + 1, lo, [c |-> lo, k |-> k])
         ELSE IF RoundNearestEven(hiV, FALSE) = n
         THEN ShortestInt(n, k + 1, lo, [c |-> Add(lo, <<1>>), k |-> k])
         ELSE best
             : lo  \in {Quot(q, 10)},
               loV \in {MulPow10(Quot(q, 10), k)},
               hiV \in {MulPow10(Add(Quot(q, 10), <<1>>), k)}})

\* The digits before and after the decimal point of the decimal c / 10^p
FracText(c, p) ==
    Val({[int  |-> DecString(q),
          frac |-> FixedDigits(ToNat(Sub(c, MulInt(q, 10 ^ p))), p)]
             : q \in {QuotInt(c, 10 ^ p)}})

\* The text of an f64: the digits before and after the decimal point
F64Display(x) ==
    Val({IF BitLength(F64Trunc(a)) > MantBits
         THEN Val({[int |-> DecString(s.c) \o [i \in 1..s.k |-> 0], frac |-> <<>>]
                       : s \in {ShortestInt(F64Trunc(a), 1, F64Trunc(a),
                                           [c |-> F64Trunc(a), k |-> 0])}})
         ELSE Val({FracText(s.c, s.p) : s \in {ShortestFrac(a, 0)}})
             : a \in {x}})

\* The text of a u32
U32Display(n) == [int |-> DecString(FromNat(n)), frac |-> <<>>]

DigitChar(d) == <<"0", "1", "2", "3", "4", "5", "6", "7", "8", "9">>[d + 1]

RECURSIVE DigitsString(_)
DigitsString(ds) ==
    IF ds = <<>> THEN "" ELSE DigitChar(Head(ds)) \o DigitsString(Tail(ds))

\* The strings Display hands to the sink for a number, one write_str each
NumPieces(t) ==
    IF t.frac = <<>> THEN <<DigitsString(t.int)>>
    ELSE <<DigitsString(t.int), ".", DigitsString(t.frac)>>

(***************************************************************************)
(* The Durations the model formats and converts.                           *)
(***************************************************************************)
\* Largest of the small whole-second counts 0..MaxSmallSecs.
MaxSmallSecs == 4

\* Largest leading digit of the sub-second grid m * 10^e.
MaxLead == 2

Pow2(k) == ShiftLeft(<<1>>, k)

\* u64::MAX
U64Max == Sub(Pow2(64), <<1>>)

\* Whole seconds (Duration::as_secs): small counts, magnitudes at which an
\* f64 stops resolving thousandths (2^43) and integers (2^53), and u64::MAX
SecsValues ==
    {FromNat(n) : n \in 0..MaxSmallSecs}
        \cup {Pow2(k) : k \in {33, 43, 63}}
        \cup {Add(Pow2(53), <<1>>), U64Max}

\* Sub-second nanoseconds (Duration::subsec_nanos, below 10^9): the unit
\* thresholds and their neighbours, the documented examples, halves of a
\* thousandth in each unit, and a grid across the magnitudes
NanosValues ==
    {0, 500, 999, 1000, 1001, 1500, 461930, 500000, 999999, 1000000,
     1000001, 1000500, 2003500, 123456789, 555500000, 999999499,
     999999500, 999999999}
        \cup {m * 10 ^ e : m \in 1..MaxLead, e \in 0..8}

(***************************************************************************)
(* State.                                                                  *)
(***************************************************************************)
VARIABLES
    secs,        \* dur.as_secs(): u64, a limb sequence
    nanos,       \* dur.subsec_nanos(): u32
    alternate,   \* f.alternate(): the {:#} flag of the Formatter
    pc,          \* "call": before the call; "write": inside write!; "ret":
                 \* fmt returned; "conv": the conversions returned
    arg,         \* the argument of write!: [kind, val], an f64 or a u32
    num,         \* the argument's text: [int, frac] digit sequences
    suffix,      \* the literal after {} in the chosen format string
    pieces,      \* strings still to be handed to the sink
    out,         \* what the sink has accepted
    log,         \* outcome of every write_str call on the sink, in order
    result,      \* "none", "Ok" or "Err": what fmt returned
    prevOut,     \* out of the previous formatting of dur (other flag)
    prevResult,  \* its result, "none" before any
    frac,        \* [secs, millis, micros]: the as_fractional_* of dur
    prevFrac     \* frac of the Duration converted before (zeros before any)

vars == <<secs, nanos, alternate, pc, arg, num, suffix, pieces, out, log,
          result, prevOut, prevResult, frac, prevFrac>>

fmtVars == <<alternate, pc, arg, num, suffix, pieces, out, log, result,
             prevOut, prevResult>>

NoArg == [kind |-> "none", val |-> <<>>]

NoNum == [int |-> <<>>, frac |-> <<>>]

NoFrac == [secs |-> <<>>, millis |-> <<>>, micros |-> <<>>]

(***************************************************************************)
(* impl Display for TimeFormat: fmt.  One write!(f, "{}<suffix>", x) is    *)
(* the argument's Display followed by the literal, each piece one          *)
(* write_str on the sink; the first Err is returned at once.               *)
(***************************************************************************)
\* WriteF64 with the test of f.alternate() inverted
WriteF64Inverted(x, abbr, full) ==
    /\ \E v \in {x} :
        /\ arg' = [kind |-> "f64", val |-> v]
        /\ num' = F64Display(v)
    /\ suffix' = IF alternate THEN abbr ELSE full
    /\ pieces' = NumPieces(num') \o <<suffix'>>

\* write!(f, "{}<abbr>", x) or write!(f, "{} <full>", x) of an f64 x
WriteF64(x, abbr, full) ==
    /\ \E v \in {x} :
        /\ arg' = [kind |-> "f64", val |-> v]
        /\ num' = F64Display(v)
    /\ suffix' = IF ~alternate THEN abbr ELSE full
    /\ pieces' = NumPieces(num') \o <<suffix'>>

\* The same of a u32 n
WriteU32(n, abbr, full) ==
    /\ arg' = [kind |-> "u32", val |-> n]
    /\ num' = U32Display(n)
    /\ suffix' = IF ~alternate THEN abbr ELSE full
    /\ pieces' = NumPieces(num') \o <<suffix'>>

\* The first test of fmt as as_secs() > 1
UseSecsGt1(s, n) == Less(<<1>>, s)

\* The tests of fmt, in its order
UseSecs(s, n) == s # <<>>

UseMillisGe(s, n) == n >= 1000000

UseMillis(s, n) == n > 1000000

UseMicrosGe(s, n) == n >= 1000

UseMicros(s, n) == n > 1000

fmt ==
    /\ pc = "call"
    /\ IF UseSecs(secs, nanos)
       THEN WriteF64(round_3_decimals(as_fractional_secs(secs, nanos)),
                     "s", " seconds")
       ELSE IF UseMillis(secs, nanos)
       THEN WriteF64(round_3_decimals(as_fractional_millis(secs, nanos)),
                     "ms", " milliseconds")
       ELSE IF UseMicros(secs, nanos)
       THEN WriteF64(round_3_decimals(as_fractional_micros(secs, nanos)),
                     "µs", " microseconds")
       ELSE WriteU32(nanos, "ns", " nanoseconds")
    /\ pc' = "write"
    /\ UNCHANGED <<secs, nanos, alternate, out, log, result, prevOut,
                   prevResult, frac, prevFrac>>

\* The sink accepts the next piece
WriteOk ==
    /\ pc = "write"
    /\ pieces # <<>>
    /\ out' = out \o Head(pieces)
    /\ log' = Append(log, "Ok")
    /\ pieces' = Tail(pieces)
    /\ UNCHANGED <<secs, nanos, alternate, pc, arg, num, suffix, result,
                   prevOut, prevResult, frac, prevFrac>>

\* WriteErr with the error dropped: formatting goes on with the next piece
WriteErrIgnored ==
    /\ pc = "write"
    /\ pieces # <<>>
    /\ log' = Append(log, "Err")
    /\ pieces' = Tail(pieces)
    /\ UNCHANGED <<secs, nanos, alternate, pc, arg, num, suffix, out, result,
                   prevOut, prevResult, frac, prevFrac>>

\* The sink rejects the next piece: write! returns the error
WriteErr ==
    /\ pc = "write"
    /\ pieces # <<>>
    /\ log' = Append(log, "Err")
    /\ result' = "Err"
    /\ pc' = "ret"
    /\ UNCHANGED <<secs, nanos, alternate, arg, num, suffix, pieces, out,
                   prevOut, prevResult, frac, prevFrac>>

\* Every piece is written: write! returns Ok(())
Return ==
    /\ pc = "write"
    /\ pieces = <<>>
    /\ result' = "Ok"
    /\ pc' = "ret"
    /\ UNCHANGED <<secs, nanos, alternate, arg, num, suffix, pieces, out,
                   log, prevOut, prevResult, frac, prevFrac>>

\* The caller formats the same Duration again with the other flag, into a
\* fresh sink (the doc test: format!("{}", ..) then format!("{:#}", ..))
Again ==
    /\ pc = "ret"
    /\ prevResult = "none"
    /\ prevOut' = out
    /\ prevResult' = result
    /\ alternate' = ~alternate
    /\ pc' = "call"
    /\ arg' = NoArg
    /\ num' = NoNum
    /\ suffix' = ""
    /\ pieces' = <<>>
    /\ out' = ""
    /\ log' = <<>>
    /\ result' = "none"
    /\ UNCHANGED <<secs, nanos, frac, prevFrac>>

Init ==
    /\ secs \in SecsValues
    /\ nanos \in NanosValues
    /\ alternate \in BOOLEAN
    /\ pc = "call"
    /\ arg = NoArg
    /\ num = NoNum
    /\ suffix = ""
    /\ pieces = <<>>
    /\ out = ""
    /\ log = <<>>
    /\ result = "none"
    /\ prevOut = ""
    /\ prevResult = "none"
    /\ frac = NoFrac
    /\ prevFrac = NoFrac

Next == fmt \/ WriteOk \/ WriteErr \/ Return \/ Again

Spec == Init /\ [][Next]_vars

(***************************************************************************)
(* The conversions on their own: a caller converts a Duration, then the    *)
(* Duration with the next more whole seconds or the next more sub-second   *)
(* nanoseconds.  Every pair a <= b of Durations is joined by such steps.   *)
(***************************************************************************)
Fractional(s, n) ==
    [secs   |-> as_fractional_secs(s, n),
     millis |-> as_fractional_millis(s, n),
     micros |-> as_fractional_micros(s, n)]

Convert ==
    /\ pc = "call"
    /\ pc' = "conv"
    /\ frac' = Fractional(secs, nanos)
    /\ UNCHANGED <<secs, nanos, alternate, arg, num, suffix, pieces, out, log,
                   result, prevOut, prevResult, prevFrac>>

GrowSecs ==
    /\ pc = "conv"
    /\ \E s \in SecsValues :
        /\ Less(secs, s)
        /\ \A t \in SecsValues : Less(secs, t) => LessEq(s, t)
        /\ secs' = s
        /\ frac' = Fractional(s, nanos)
    /\ prevFrac' = frac
    /\ UNCHANGED nanos
    /\ UNCHANGED fmtVars

GrowNanos ==
    /\ pc = "conv"
    /\ \E n \in NanosValues :
        /\ nanos < n
        /\ \A m \in NanosValues : nanos < m => n <= m
        /\ nanos' = n
        /\ frac' = Fractional(secs, n)
    /\ prevFrac' = frac
    /\ UNCHANGED secs
    /\ UNCHANGED fmtVars

ConvInit ==
    /\ secs = <<>>
    /\ nanos = 0
    /\ alternate = FALSE
    /\ pc = "call"
    /\ arg = NoArg
    /\ num = NoNum
    /\ suffix = ""
    /\ pieces = <<>>
    /\ out = ""
    /\ log = <<>>
    /\ result = "none"
    /\ prevOut = ""
    /\ prevResult = "none"
    /\ frac = NoFrac
    /\ prevFrac = NoFrac

ConvNext == Convert \/ GrowSecs \/ GrowNanos

ConvSpec == ConvInit /\ [][ConvNext]_vars

(***************************************************************************)
(* What the specification says, in exact integer arithmetic.               *)
(***************************************************************************)
\* Relative difference, in bits below the mantissa's last, that counts as
\* floating-point rounding: 2^UlpBits units in the last place.
UlpBits == 3

FullName(u) ==
    CASE u = "s"  -> "seconds"
      [] u = "ms" -> "milliseconds"
      [] u = "µs" -> "microseconds"
      [] u = "ns" -> "nanoseconds"

Units == {"s", "ms", "µs", "ns"}

\* The suffix of unit u: abbreviated, or a space and the full name
SuffixOf(u, alt) == IF alt THEN " " \o FullName(u) ELSE u

\* The unit the specification selects: the first matching test
ClaimedUnit ==
    IF secs # <<>> THEN "s"
    ELSE IF nanos > 1000000 THEN "ms"
    ELSE IF nanos > 1000 THEN "µs"
    ELSE "ns"

\* The characters of a number's text
NumString(t) ==
    IF t.frac = <<>> THEN DigitsString(t.int)
    ELSE DigitsString(t.int) \o "." \o DigitsString(t.frac)

\* The digits ds without trailing zeros
RECURSIVE StripZeros(_, _)
StripZeros(ds, n) ==
    IF n = 0 THEN <<>>
    ELSE IF ds[n] # 0 THEN SubSeq(ds, 1, n)
    ELSE StripZeros(ds, n - 1)

\* The Duration in the claimed unit, times 1000, rounded to the nearest
\* integer, halves away from zero: floor(1000 * value + 1/2)
ExactThousandths ==
    IF secs # <<>>
    THEN Add(MulSmall(secs, 1000), FromNat((nanos + 500000) \div 1000000))
    ELSE IF nanos > 1000000 THEN FromNat((nanos + 500) \div 1000)
    ELSE FromNat(nanos)

\* The decimal k / 1000 without trailing zeros
ThousandthsText(k) ==
    [int  |-> DecString(Quot(k, 1000)),
     frac |-> StripZeros(FixedDigits(Rem(k, 1000), 3), 3)]

\* The f64 x is an integer
Integral(x) == \A i \in 1..FracLimbs : Limb(x, i) = 0

Diff(a, b) == IF Less(a, b) THEN Sub(b, a) ELSE Sub(a, b)

Max(a, b) == IF Less(a, b) THEN b ELSE a

\* a and b differ by at most 2^UlpBits units in the last place
Close(a, b) == LessEq(ShiftLeft(Diff(a, b), MantBits - UlpBits), Max(a, b))

\* The Duration in nanoseconds
ExactNanos == Add(MulInt(secs, 1000000000), FromNat(nanos))

(***************************************************************************)
(* Claims.                                                                 *)
(***************************************************************************)
\* C1: fmt selects exactly one unit, by the first matching test in the
\* order seconds > 0, subsec_nanos > 1_000_000, subsec_nanos > 1_000,
\* otherwise nanoseconds; the output is the number followed by that unit's
\* suffix alone.
C1_UnitByFirstMatch ==
    /\ pc \in {"write", "ret"} => suffix = SuffixOf(ClaimedUnit, alternate)
    /\ result = "Ok" => out = NumString(num) \o SuffixOf(ClaimedUnit, alternate)

\* C1 witness: seconds are selected whatever subsec_nanos is.
C1_Witness ==
    /\ result = "Ok"
    /\ secs = <<1>>
    /\ nanos = 500
    /\ ~alternate
    /\ out = "1s"

\* C2: the thresholds are strict: (0s, 1_000_000ns) is written "1000µs"
\* and (0s, 1_000ns) is written "1000ns".
C2_StrictThresholds ==
    (result = "Ok" /\ secs = <<>> /\ ~alternate) =>
        /\ nanos = 1000000 => out = "1000µs"
        /\ nanos = 1000 => out = "1000ns"

\* C2 witness: exactly one millisecond has been written.
C2_Witness ==
    /\ result = "Ok"
    /\ secs = <<>>
    /\ nanos = 1000000
    /\ ~alternate
    /\ out = "1000µs"

C4_SameNumberBothModes ==
    (result = "Ok" /\ prevResult = "Ok") =>
        \E u \in Units :
            IF alternate
            THEN /\ out = NumString(num) \o " " \o FullName(u)
                 /\ prevOut = NumString(num) \o u
            ELSE /\ out = NumString(num) \o u
                 /\ prevOut = NumString(num) \o " " \o FullName(u)

\* C4 witness: the documented example, written both ways.
C4_Witness ==
    /\ result = "Ok"
    /\ secs = <<>>
    /\ nanos = 461930
    /\ alternate
    /\ prevOut = "461.93µs"
    /\ out = "461.93 microseconds"

\* C5: with seconds = 0 and subsec_nanos <= 1_000 the output is
\* subsec_nanos as a decimal integer, without a decimal point, followed by
\* the nanosecond suffix.
C5_NanosAsInteger ==
    (result = "Ok" /\ secs = <<>> /\ nanos <= 1000) =>
        /\ arg = [kind |-> "u32", val |-> nanos]
        /\ num.frac = <<>>
        /\ out = DigitsString(IF nanos = 0 THEN <<0>> ELSE NatDigits(nanos))
                     \o SuffixOf("ns", alternate)

\* C5 witness: 500 nanoseconds written.
C5_Witness ==
    /\ result = "Ok"
    /\ secs = <<>>
    /\ nanos = 500
    /\ ~alternate
    /\ out = "500ns"

\* C6: a number written in seconds, milliseconds or microseconds has at
\* most 3 digits after the decimal point, no trailing zero, and no decimal
\* point when the rounded value is integral (2.0 seconds is "2s").
C6_AtMostThreeDecimals ==
    (pc \in {"write", "ret"} /\ arg.kind = "f64") =>
        /\ Len(num.frac) <= 3
        /\ num.frac # <<>> => num.frac[Len(num.frac)] # 0
        /\ Integral(arg.val) => num.frac = <<>>
        /\ (result = "Ok" /\ ~alternate /\ arg.val = F64Exact(<<2>>)
                /\ secs # <<>>) => out = "2s"

\* C6 witness: a rounded value of exactly 2.0 seconds has been written.
C6_Witness ==
    /\ result = "Ok"
    /\ arg = [kind |-> "f64", val |-> F64Exact(<<2>>)]
    /\ ~alternate
    /\ out = "2s"

\* C7: the three conversions agree within floating-point rounding:
\* secs * 1000 with millis, millis * 1000 with micros, and secs with
\* seconds + subsec_nanos / 1e9.
C7_ConversionsAgree ==
    pc = "conv" =>
        /\ Close(F64Mul(frac.secs, 1000), frac.millis)
        /\ Close(F64Mul(frac.millis, 1000), frac.micros)
        /\ Close(MulInt(frac.secs, 1000000000), F64Exact(ExactNanos))

\* C7 witness: the documented Duration::new(4, 123_456_789) converted to
\* 4.12.. seconds, 4_123.45.. milliseconds and 4_123_456.78.. microseconds.
C7_Witness ==
    /\ pc = "conv"
    /\ secs = <<4>>
    /\ nanos = 123456789
    /\ F64Trunc(MulInt(frac.secs, 100)) = FromNat(412)
    /\ F64Trunc(MulInt(frac.millis, 100)) = FromNat(412345)
    /\ F64Trunc(frac.micros) = FromNat(4123456)

\* C8: as_fractional_secs does not decrease when a component increases.
C8_Monotone == pc = "conv" => LessEq(prevFrac.secs, frac.secs)

\* C8 witness: a Duration converted after a smaller one, to a larger f64.
C8_Witness ==
    /\ pc = "conv"
    /\ secs # <<>>
    /\ nanos # 0
    /\ Less(prevFrac.secs, frac.secs)

\* C9: fmt returns an error if and only if the sink rejected a write; the
\* error is returned at once: the rejected write is the last one, it is
\* not retried, and without a rejection every piece reaches the sink.
C9_ErrorIffSinkRejects ==
    /\ pc = "ret" => (result = "Err" <=> \E i \in DOMAIN log : log[i] = "Err")
    /\ \A i \in DOMAIN log :
           log[i] = "Err" => (i = Len(log) /\ pc = "ret" /\ result = "Err")
    /\ result = "Ok" => (pieces = <<>> /\ out = NumString(num) \o suffix)
    /\ pc = "write" => result = "none"

\* C9 witness: the sink took the number and rejected the next write.
C9_Witness ==
    /\ pc = "ret"
    /\ result = "Err"
    /\ Len(log) >= 2
    /\ log[1] = "Ok"
    /\ log[Len(log)] = "Err"

\* C10: a number written in milliseconds or microseconds lies in 1..1000,
\* one written in seconds is at least 1; 1000 is not carried into the next
\* unit (seconds = 0 and subsec_nanos >= 999_999_500 is "1000ms"); the
\* number written is 0 only for the zero Duration.
C10_RenderedRange ==
    pc \in {"write", "ret"} =>
        /\ arg.kind = "f64" => num.int # <<0>>
        /\ (arg.kind = "f64" /\ secs = <<>>) =>
               \/ Len(num.int) <= 3
               \/ num = [int |-> <<1, 0, 0, 0>>, frac |-> <<>>]
        /\ (result = "Ok" /\ secs = <<>> /\ nanos >= 999999500 /\ ~alternate)
               => out = "1000ms"
        /\ num = [int |-> <<0>>, frac |-> <<>>] => (secs = <<>> /\ nanos = 0)

\* C10 witness: 999_999_500 nanoseconds written as 1000 milliseconds.
C10_Witness ==
    /\ result = "Ok"
    /\ secs = <<>>
    /\ nanos = 999999500
    /\ ~alternate
    /\ out = "1000ms"

====
